---- MODULE Spec2Model ----
(***************************************************************************)
(* StockFlow: the catalog owner (App), the register-sale cart              *)
(* (RegisterSale) and the product form (AddProduct) as one state machine.  *)
(* One action per event handler; component-local state (cart, search       *)
(* input, form) is re-initialised whenever its route is mounted.           *)
(***************************************************************************)
EXTENDS Integers, Sequences, FiniteSets, TLC

\* ------------------------------------------------------------------ bounds
MaxCartQty == 2          \* largest line quantity explored in the full model
MaxAppended == 2         \* activity records appended before logging handlers stop
MaxNotified == 1         \* notifications prepended before notifying handlers stop
MaxCreates == 1          \* products created through the form
MaxStepQty == 1          \* the form's +/- buttons are explored up to this quantity
MaxFallbacks == 1        \* SKUs generated from the clock before that path stops
MaxInvoices == 1         \* invoices saved before the invoice form stops
MaxChatTurns == 2        \* user messages accepted before the chat stops

\* ------------------------------------------------------- program constants
LowStockThreshold == 40

\* ------------------------------------------------------------------ strings
\* A string is a sequence of one-character strings.
LowerChar(c) ==
    CASE c = "K" -> "k" [] c = "B" -> "b" [] c = "R" -> "r" [] c = "G" -> "g"
      [] c = "S" -> "s" [] c = "U" -> "u" [] c = "P" -> "p" [] c = "N" -> "n"
      [] c = "C" -> "c" [] c = "L" -> "l" [] c = "E" -> "e" [] c = "A" -> "a"
      [] c = "M" -> "m" [] c = "I" -> "i" [] c = "V" -> "v"
      [] OTHER -> c

toLowerCase(s) == [i \in 1..Len(s) |-> LowerChar(s[i])]

includes(s, sub) ==
    \E i \in 0..(Len(s) - Len(sub)) : SubSeq(s, i + 1, i + Len(sub)) = sub

\* ------------------------------------------------------------------ prices
\* A catalog price is the string "€<amount with two decimals>", kept as the
\* currency sign and the amount in cents.  A typed price is a text that is
\* empty, a lone ".", non-numeric, or a decimal number.
FormatPrice(cents) == [sym |-> "€", cents |-> cents]

StripEuro(price) == [kind |-> "decimal", cents |-> price.cents]

\* the pattern without its negation: the digits are stripped, parseFloat
\* gives NaN and the || 0 applies
ParseCatalogPrice_StripDigits(price) == 0

\* parseFloat(product.price.replace(/[^0-9.-]+/g, "")) || 0
ParseCatalogPrice(price) == price.cents

\* /^\d*\.?\d*$/.test(value)
IsValidNumber(text) == text.kind \in {"empty", "dot", "decimal"}

\* isNaN(parseFloat(text))
ParsesToNaN(text) == text.kind # "decimal"

EmptyText == [kind |-> "empty", cents |-> 0]

\* ------------------------------------------------------------------- status
\* the threshold compared with <= for <
getStatus_Inclusive(qty) ==
    IF qty = 0 THEN "Out of Stock"
    ELSE IF qty <= LowStockThreshold THEN "Low Stock"
    ELSE "In Stock"

getStatus(qty) ==
    IF qty = 0 THEN "Out of Stock"
    ELSE IF qty < LowStockThreshold THEN "Low Stock"
    ELSE "In Stock"

Max(a, b) == IF a > b THEN a ELSE b

\* ------------------------------------------------------------ initial data
\* Three of the fifty mock products, names, SKUs and categories shortened:
\* the keyboard (5 units), the cable (0 units) and one randomly stocked
\* sample.  The others are left out, as after deleting them on the inventory
\* page, which touches neither the log nor the notifications.
SkuKb == <<"K", "B", "-", "0", "2">>
SkuSample == <<"S", "K", "U", "-", "6">>
NameKb == <<"K", "e", "y", "b">>
NameSample == <<"P", "r", "o", "d", "6">>
NameNew == <<"N", "e", "w">>

INITIAL_CATEGORIES ==
    << <<"E", "l", "e", "c">>, <<"A", "c", "c", "e">>, <<"M", "o", "n", "i">>,
       <<"F", "u", "r", "n">> >>

\* A date is the text YYYY-MM-DD or the empty text.  It is kept as a day
\* number counted from 2023-10-19, NoDate for the empty text; Today is the
\* day the session runs.
NoDate == 0
Today == 9

\* quantities the randomly stocked sample product may start with
InitQtys == {2, 40}

BaseProduct ==
    [id |-> 2, name |-> NameKb, sku |-> SkuKb, category |-> INITIAL_CATEGORIES[1],
     price |-> FormatPrice(8500), qty |-> 5, status |-> getStatus(5), date |-> 1]

CableProduct ==
    [id |-> 3, name |-> <<"C", "a", "b", "l", "e">>, sku |-> <<"C", "B", "L">>,
     category |-> INITIAL_CATEGORIES[2], price |-> FormatPrice(1200), qty |-> 0,
     status |-> getStatus(0), date |-> 2]

SampleProduct(q) ==
    [id |-> 6, name |-> NameSample, sku |-> SkuSample,
     category |-> INITIAL_CATEGORIES[3], price |-> FormatPrice(1000),
     qty |-> q, status |-> getStatus(q), date |-> 3]

Digits == <<"0", "1", "2", "3", "4", "5", "6", "7", "8", "9">>

\* the decimal digits of a number below 100
DigitsOf(i) ==
    IF i < 10 THEN <<Digits[i + 1]>>
    ELSE <<Digits[(i \div 10) + 1], Digits[(i % 10) + 1]>>

\* one outcome of the random category, price, quantity and date of the mock
\* products numbered from 6 on
ExtraProduct(i) ==
    [id |-> i, name |-> <<"P", "r", "o", "d">> \o DigitsOf(i),
     sku |-> <<"S", "K", "U", "-">> \o DigitsOf(i),
     category |-> INITIAL_CATEGORIES[(i % 4) + 1],
     price |-> FormatPrice(<<1000, 1250, 1500>>[(i % 3) + 1]),
     qty |-> <<0, 12, 39, 40, 75>>[(i % 5) + 1],
     status |-> getStatus(<<0, 12, 39, 40, 75>>[(i % 5) + 1]),
     date |-> 1 + (i % 4)]

INITIAL_ACTIVITIES ==
    << [type |-> "add",   user |-> "Sarah J.",     action |-> "added units of",    n |-> 50, target |-> <<"H">>],
       [type |-> "sale",  user |-> "System",       action |-> "fulfilled order",   n |-> 3,  target |-> <<"#">>],
       [type |-> "edit",  user |-> "Mike T.",      action |-> "updated price for", n |-> 0,  target |-> <<"M">>],
       [type |-> "alert", user |-> "System Alert", action |-> "Low stock for",     n |-> 0,  target |-> <<"W">>] >>

INITIAL_NOTIFICATIONS ==
    << [title |-> "Low Stock Alert",    n |-> 10, target |-> <<"W">>, type |-> "alert"],
       [title |-> "New Order Received", n |-> 0,  target |-> <<"#">>, type |-> "order"] >>

currentUserName == "John Doe"

\* the four mock invoices, by reference id and provider
INITIAL_INVOICES ==
    << [refId |-> <<"I", "N", "V", "-", "1">>, provider |-> <<"T", "S">>],
       [refId |-> <<"I", "N", "V", "-", "2">>, provider |-> <<"O", "D">>],
       [refId |-> <<"I", "N", "V", "-", "3">>, provider |-> <<"C", "S">>],
       [refId |-> <<"I", "N", "V", "-", "4">>, provider |-> <<"I", "A">>] >>

\* the greeting the transcript starts with
INITIAL_MESSAGES == << [role |-> "model", text |-> "greeting"] >>

\* no generateContent call is in flight
NoRequest == "none"

\* product ids are numbers; NoId stands for an absent id (undefined, null)
NoId == 0 - 1

VARIABLES
    products,        \* App: the catalog
    activities,      \* App: the activity log, newest first
    notifications,   \* App: the notification list, newest first
    created,         \* number of ids Date.now() has handed out
    now,             \* number of SKUs Date.now() has handed out
    page,            \* the mounted route
    routeId,         \* the :id parameter of /edit-product/:id, NoId elsewhere
    cart,            \* RegisterSale: cart lines in insertion order
    searchQuery,     \* RegisterSale: the search input
    formData,        \* AddProduct: the form fields
    formErrors,      \* AddProduct: priceError
    productToDelete, \* Inventory: the id awaiting confirmation, NoId for null
    searchTerm,      \* Inventory: the search input
    selectedCategory, \* Inventory: the category filter
    selectedStatus,  \* Inventory: the status filter
    sortConfig,      \* Inventory: the sort key and direction
    currentPage,     \* Inventory: the page shown
    invoices,        \* Invoices: the invoice list, newest first
    isFormModalOpen, \* Invoices: the new-invoice form is shown
    messages,        \* ChatBot: the transcript, oldest first
    inputValue,      \* ChatBot: the input field
    isLoading,       \* ChatBot: a request is awaited
    request,         \* ChatBot: the generateContent call in flight
    lastEvent        \* the handler that ran last and its argument

vars == <<products, activities, notifications, created, now, page, routeId, cart,
          searchQuery, formData, formErrors, productToDelete, searchTerm,
          selectedCategory, selectedStatus, sortConfig, currentPage, invoices,
          isFormModalOpen, messages, inputValue, isLoading, request, lastEvent>>

appVars == <<products, activities, notifications, created, now>>
saleVars == <<cart, searchQuery>>
formVars == <<formData, formErrors>>
viewVars == <<searchTerm, selectedCategory, selectedStatus, sortConfig, currentPage>>
invoiceVars == <<invoices, isFormModalOpen>>
chatVars == <<messages, inputValue, isLoading, request>>

\* ---------------------------------------------------------------- helpers
RECURSIVE SumQty(_)
SumQty(items) ==
    IF items = <<>> THEN 0 ELSE Head(items).qty + SumQty(Tail(items))

Reverse(s) == [i \in 1..Len(s) |-> s[Len(s) + 1 - i]]

\* Array.prototype.find: the first element with the given id, as a
\* sequence of length 0 (undefined) or 1
FindById(seq, id) ==
    LET hits == SelectSeq(seq, LAMBDA x : x.id = id)
    IN  IF hits = <<>> THEN <<>> ELSE <<Head(hits)>>

Ids(seq) == {seq[i].id : i \in 1..Len(seq)}

\* room left in the two unbounded lists
CanRecord ==
    /\ Len(activities) < Len(INITIAL_ACTIVITIES) + MaxAppended
    /\ Len(notifications) < Len(INITIAL_NOTIFICATIONS) + MaxNotified

\* ------------------------------------------------------------ App handlers
Activity(type, user, action, n, target) ==
    [type |-> type, user |-> user, action |-> action, n |-> n, target |-> target]

Notification(title, n, target, type) ==
    [title |-> title, n |-> n, target |-> target, type |-> type]

\* the log with new records added at its end
logActivity_Append(log, records) == log \o records

\* logActivity prepends; a handler that logs several records leaves the
\* last one logged at the head
logActivity(log, records) == Reverse(records) \o log

\* the decrement that ignores the line quantity
SaleNewQty_ByOne(stock, sold) == Max(0, stock - 1)

\* Math.max(0, product.qty - item.qty)
SaleNewQty(stock, sold) == Max(0, stock - sold)

\* the alert test with the low-stock branch tried first
SaleAlertKind_LowFirst(catalog, item) ==
    LET found == FindById(catalog, item.id)
    IN  IF found = <<>> THEN "none"
        ELSE LET product == found[1]
                 newQty == Max(0, product.qty - item.qty)
             IN  IF product.qty >= LowStockThreshold /\ newQty < LowStockThreshold
                 THEN "low"
                 ELSE IF product.qty > 0 /\ newQty = 0 THEN "out"
                      ELSE "none"

\* step 1 of handleProcessSale: "out", "low" or "none" for one sold item
SaleAlertKind(catalog, item) ==
    LET found == FindById(catalog, item.id)
    IN  IF found = <<>> THEN "none"
        ELSE LET product == found[1]
                 newQty == SaleNewQty(product.qty, item.qty)
             IN  IF product.qty > 0 /\ newQty = 0 THEN "out"
                 ELSE IF product.qty >= LowStockThreshold /\ newQty < LowStockThreshold
                      THEN "low"
                      ELSE "none"

SaleAlertActivity(catalog, item) ==
    LET product == FindById(catalog, item.id)[1]
    IN  IF SaleAlertKind(catalog, item) = "out"
        THEN Activity("alert", "System Alert", "Stock depleted for", 0, product.name)
        ELSE Activity("alert", "System Alert", "Low stock warning for", 0, product.name)

SaleAlertNotification(catalog, item) ==
    LET product == FindById(catalog, item.id)[1]
    IN  IF SaleAlertKind(catalog, item) = "out"
        THEN Notification("Out of Stock Alert", 0, product.name, "alert")
        ELSE Notification("Low Stock Alert", SaleNewQty(product.qty, item.qty),
                          product.name, "alert")

\* the sold items that raise an alert, in cart order
SaleAlertItems(catalog, soldItems) ==
    SelectSeq(soldItems, LAMBDA item : SaleAlertKind(catalog, item) # "none")

\* the sale that decrements the quantity and keeps the stored status
SaleUpdateProducts_StaleStatus(catalog, soldItems) ==
    [i \in 1..Len(catalog) |->
        LET p == catalog[i]
            soldItem == FindById(soldItems, p.id)
        IN  IF soldItem # <<>>
            THEN [p EXCEPT !.qty = Max(0, p.qty - soldItem[1].qty)]
            ELSE p]

\* step 2 of handleProcessSale: the catalog after the sale
SaleUpdateProducts(catalog, soldItems) ==
    [i \in 1..Len(catalog) |->
        LET p == catalog[i]
            soldItem == FindById(soldItems, p.id)
        IN  IF soldItem # <<>>
            THEN LET newQty == SaleNewQty(p.qty, soldItem[1].qty)
                 IN  [p EXCEPT !.qty = newQty, !.status = getStatus(newQty)]
            ELSE p]

handleProcessSale(soldItems) ==
    LET alertItems == SaleAlertItems(products, soldItems)
        alertActs == [i \in 1..Len(alertItems) |-> SaleAlertActivity(products, alertItems[i])]
        alertNotes == [i \in 1..Len(alertItems) |-> SaleAlertNotification(products, alertItems[i])]
        totalItems == SumQty(soldItems)
    IN  /\ products' = SaleUpdateProducts(products, soldItems)
        /\ activities' = logActivity(activities,
               alertActs \o <<Activity("sale", currentUserName, "fulfilled order",
                                       totalItems, <<"#">>)>>)
        /\ notifications' =
               alertNotes \o <<Notification("Sale Completed", totalItems, <<"#">>, "order")>>
                          \o notifications
        /\ UNCHANGED <<created, now>>

\* ----------------------------------------------------- RegisterSale handlers
\* the search results: products matching the query by name or SKU, in stock
filteredProducts ==
    SelectSeq(products, LAMBDA p :
        /\ searchQuery # <<>>
        /\ \/ includes(toLowerCase(p.name), toLowerCase(searchQuery))
           \/ includes(toLowerCase(p.sku), toLowerCase(searchQuery))
        /\ p.qty > 0)

currentQtyInCart(product) ==
    LET existingItem == FindById(cart, product.id)
    IN  IF existingItem # <<>> THEN existingItem[1].qty ELSE 0

\* the stock check with > for >=
AddRejected_OffByOne(product) == currentQtyInCart(product) > product.qty

\* addToCart returns early, changing nothing
AddRejected(product) == currentQtyInCart(product) >= product.qty

\* the add that never looks for an existing line
CartAfterAdd_AlwaysAppend(product) ==
    Append(cart, [id |-> product.id, name |-> product.name,
                  price |-> ParseCatalogPrice(product.price), qty |-> 1,
                  maxQty |-> product.qty, sku |-> product.sku])

\* the add that looks for the product in the first cart line only
CartAfterAdd_FirstLineOnly(product) ==
    IF cart # <<>> /\ cart[1].id = product.id
    THEN [cart EXCEPT ![1].qty = cart[1].qty + 1]
    ELSE Append(cart, [id |-> product.id, name |-> product.name,
                       price |-> ParseCatalogPrice(product.price), qty |-> 1,
                       maxQty |-> product.qty, sku |-> product.sku])

CartAfterAdd(product) ==
    IF FindById(cart, product.id) # <<>>
    THEN [i \in 1..Len(cart) |->
             IF cart[i].id = product.id
             THEN [cart[i] EXCEPT !.qty = cart[i].qty + 1]
             ELSE cart[i]]
    ELSE Append(cart, [id |-> product.id, name |-> product.name,
                       price |-> ParseCatalogPrice(product.price), qty |-> 1,
                       maxQty |-> product.qty, sku |-> product.sku])

\* cap is the largest line quantity the exploration follows
addToCart(product, cap) ==
    /\ currentQtyInCart(product) < cap
    /\ IF AddRejected(product)
       THEN UNCHANGED <<cart, searchQuery>>
       ELSE /\ cart' = CartAfterAdd(product)
            /\ searchQuery' = <<>>

\* a click on one of the search results
clickResult(cap) ==
    \E i \in 1..Len(filteredProducts) :
        /\ page = "register-sale"
        /\ addToCart(filteredProducts[i], cap)
        /\ lastEvent' = <<"addToCart", filteredProducts[i].id>>
        /\ UNCHANGED <<invoiceVars, chatVars>>
        /\ UNCHANGED <<appVars, page, routeId, formVars, productToDelete, viewVars>>

\* the match that accepts a SKU merely containing the query
exactMatch_Partial ==
    LET hits == SelectSeq(products, LAMBDA p :
                    includes(toLowerCase(p.sku), toLowerCase(searchQuery)))
    IN  IF hits = <<>> THEN <<>> ELSE <<Head(hits)>>

\* the match that compares the SKU and the query as typed
exactMatch_CaseSensitive ==
    LET hits == SelectSeq(products, LAMBDA p : p.sku = searchQuery)
    IN  IF hits = <<>> THEN <<>> ELSE <<Head(hits)>>

\* the first product whose SKU equals the query ignoring case
exactMatch ==
    LET hits == SelectSeq(products, LAMBDA p :
                    toLowerCase(p.sku) = toLowerCase(searchQuery))
    IN  IF hits = <<>> THEN <<>> ELSE <<Head(hits)>>

\* Enter in the search input
handleKeyDown(cap) ==
    /\ page = "register-sale"
    /\ IF exactMatch # <<>> /\ exactMatch[1].qty > 0
       THEN addToCart(exactMatch[1], cap)
       ELSE UNCHANGED <<cart, searchQuery>>
    /\ lastEvent' = <<"handleKeyDown", IF exactMatch # <<>> THEN exactMatch[1].id ELSE NoId>>
    /\ UNCHANGED <<invoiceVars, chatVars>>
    /\ UNCHANGED <<appVars, page, routeId, formVars, productToDelete, viewVars>>

\* texts typed or scanned into the search input
ScannedInputs ==
    { <<"k", "b", "-", "0", "2">>,      \* the keyboard SKU in lower case
      <<"c", "b", "l">>,                \* the cable SKU in lower case
      <<"s", "k", "u", "-", "6">>,      \* the sample SKU in lower case
      <<"s", "k">>,                     \* a fragment of the sample SKU
      <<"z">> }                         \* matches nothing
TypedInputs == { <<"-">> }              \* a fragment of every SKU

setSearchQuery(inputs) ==
    \E text \in inputs :
        /\ page = "register-sale"
        /\ searchQuery' = text
        /\ lastEvent' = <<"setSearchQuery", NoId>>
        /\ UNCHANGED <<invoiceVars, chatVars>>
        /\ UNCHANGED <<appVars, page, routeId, cart, formVars, productToDelete, viewVars>>

\* the lower check with < for <=
QtyAfterUpdate_AllowZero(item, delta) ==
    LET newQty == item.qty + delta
    IN  IF newQty < 0 THEN item.qty
        ELSE IF newQty > item.maxQty THEN item.qty
        ELSE newQty

QtyAfterUpdate(item, delta) ==
    LET newQty == item.qty + delta
    IN  IF newQty <= 0 THEN item.qty
        ELSE IF newQty > item.maxQty THEN item.qty
        ELSE newQty

updateCartQty(cap) ==
    \E id \in Ids(cart), delta \in {1, -1} :
        /\ page = "register-sale"
        /\ \A i \in 1..Len(cart) : cart[i].id = id => cart[i].qty + delta <= cap
        /\ cart' = [i \in 1..Len(cart) |->
                       IF cart[i].id = id
                       THEN [cart[i] EXCEPT !.qty = QtyAfterUpdate(cart[i], delta)]
                       ELSE cart[i]]
        /\ lastEvent' = <<IF delta = 1 THEN "updateCartQty+" ELSE "updateCartQty-", id>>
        /\ UNCHANGED <<invoiceVars, chatVars>>
        /\ UNCHANGED <<appVars, page, routeId, searchQuery, formVars, productToDelete, viewVars>>

\* the remove button acting as a decrement while more than one unit is left
removeFromCart_Decrement ==
    \E id \in Ids(cart) :
        /\ page = "register-sale"
        /\ cart' = SelectSeq([i \in 1..Len(cart) |->
                                 IF cart[i].id = id
                                 THEN [cart[i] EXCEPT !.qty = cart[i].qty - 1]
                                 ELSE cart[i]],
                             LAMBDA item : item.qty > 0)
        /\ lastEvent' = <<"removeFromCart", id>>
        /\ UNCHANGED <<invoiceVars, chatVars>>
        /\ UNCHANGED <<appVars, page, routeId, searchQuery, formVars, productToDelete, viewVars>>

removeFromCart ==
    \E id \in Ids(cart) :
        /\ page = "register-sale"
        /\ cart' = SelectSeq(cart, LAMBDA item : item.id # id)
        /\ lastEvent' = <<"removeFromCart", id>>
        /\ UNCHANGED <<invoiceVars, chatVars>>
        /\ UNCHANGED <<appVars, page, routeId, searchQuery, formVars, productToDelete, viewVars>>

\* the amount that forgets the quantity
LineAmount_UnitOnly(item) == item.price

\* item.price * item.qty, in cents
LineAmount(item) == item.price * item.qty

\* cart.reduce((acc, item) => acc + item.price * item.qty, acc)
RECURSIVE reduce(_, _)
reduce(items, acc) ==
    IF items = <<>> THEN acc
    ELSE reduce(Tail(items), acc + LineAmount(Head(items)))

\* the amount the Subtotal and Total rows render, in cents
calculateTotal == reduce(cart, 0)

\* handleCompleteSale without its early return
SaleRejected_Never(items) == FALSE

\* the early return of handleCompleteSale
SaleRejected(items) == Len(items) = 0

\* the commit that leaves the lines in the cart
CartAfterSale_Kept == cart

\* setCart([]) after the sale was handed to App
CartAfterSale == <<>>

handleCompleteSale ==
    /\ page = "register-sale"
    /\ IF SaleRejected(cart)
       THEN UNCHANGED <<appVars, cart>>
       ELSE /\ CanRecord
            /\ handleProcessSale(cart)
            /\ cart' = CartAfterSale
    /\ lastEvent' = <<IF SaleRejected(cart) THEN "handleCompleteSale:empty" ELSE "handleCompleteSale", NoId>>
    /\ UNCHANGED <<invoiceVars, chatVars>>
    /\ UNCHANGED <<page, routeId, searchQuery, formVars, productToDelete, viewVars>>

\* ------------------------------------------------------------ App: products
\* Date.now().toString() for the k-th product created
NewId(k) == 1000 + k

handleSaveProduct(product) ==
    LET qty == product.qty
        existingProduct == FindById(products, product.id)
        changeLog ==
            IF existingProduct # <<>>
            THEN LET oldQty == existingProduct[1].qty
                 IN  (IF qty > oldQty
                      THEN <<Activity("add", currentUserName, "added units of",
                                      qty - oldQty, product.name)>>
                      ELSE IF qty < oldQty
                      THEN <<Activity("edit", currentUserName, "removed units from",
                                      oldQty - qty, product.name)>>
                      ELSE IF existingProduct[1].price # product.price
                      THEN <<Activity("edit", currentUserName, "updated price for",
                                      0, product.name)>>
                      ELSE <<>>)
                     \o (IF oldQty >= LowStockThreshold /\ qty < LowStockThreshold /\ qty > 0
                         THEN <<Activity("alert", "System Alert", "Low stock warning for",
                                         0, product.name)>>
                         ELSE <<>>)
                     \o (IF oldQty > 0 /\ qty = 0
                         THEN <<Activity("alert", "System Alert", "Stock depleted for",
                                         0, product.name)>>
                         ELSE <<>>)
            ELSE <<Activity("add", currentUserName, "created new product", 0, product.name)>>
        productWithStatus ==
            [id |-> product.id, name |-> product.name, sku |-> product.sku,
             category |-> product.category, price |-> product.price, qty |-> qty,
             status |-> getStatus(qty), date |-> product.date]
        newNotification ==
            IF qty = 0
            THEN <<Notification("Out of Stock Alert", 0, product.name, "alert")>>
            ELSE IF qty < LowStockThreshold
            THEN <<Notification("Low Stock Alert", qty, product.name, "alert")>>
            ELSE <<>>
    IN  /\ activities' = logActivity(activities, changeLog)
        /\ IF product.id # NoId
           THEN /\ products' = [i \in 1..Len(products) |->
                                   IF products[i].id = productWithStatus.id
                                   THEN productWithStatus ELSE products[i]]
                /\ UNCHANGED created
           ELSE /\ products' = <<[productWithStatus EXCEPT !.id = NewId(created)]>>
                                   \o products
                /\ created' = created + 1
        /\ notifications' = newNotification \o notifications

handleDeleteProduct(id) ==
    /\ products' = SelectSeq(products, LAMBDA p : p.id # id)
    /\ UNCHANGED <<activities, notifications, created, now>>

\* ------------------------------------------------------ AddProduct handlers
BlankForm ==
    [name |-> <<>>, sku |-> <<>>, category |-> INITIAL_CATEGORIES[1],
     price |-> EmptyText, qty |-> 0, date |-> Today]

\* of the three inline errors only priceError is read back by a handler
NoErrors == [price |-> FALSE]

\* the form a freshly mounted AddProduct shows for route parameter id
MountedForm(id) ==
    LET productToEdit == FindById(products, id)
    IN  IF id # NoId /\ productToEdit # <<>>
        THEN [name |-> productToEdit[1].name, sku |-> productToEdit[1].sku,
              category |-> productToEdit[1].category,
              price |-> StripEuro(productToEdit[1].price), qty |-> productToEdit[1].qty,
              date |-> IF productToEdit[1].date # NoDate
                       THEN productToEdit[1].date ELSE Today]
        ELSE BlankForm

\* values typed into the form fields
FormNames == {NameNew}
FormSkus == {<<"N", "1">>}
FormPrices == {[kind |-> "dot", cents |-> 0], [kind |-> "decimal", cents |-> 1000]}
FormQtys == {0 - 1, LowStockThreshold}

onAddPage == page \in {"add-product", "edit-product"}

handleChange(names, skus, dates) ==
    /\ onAddPage
    /\ \/ \E v \in names :
            /\ formData' = [formData EXCEPT !.name = v]
            /\ UNCHANGED formErrors
       \/ \E v \in skus :
            /\ formData' = [formData EXCEPT !.sku = v]
            /\ UNCHANGED formErrors
       \/ \E v \in FormPrices :
            /\ formData' = [formData EXCEPT !.price = v]
            /\ formErrors' = [formErrors EXCEPT !.price = ~IsValidNumber(v)]
       \/ \E v \in FormQtys :
            /\ formData' = [formData EXCEPT !.qty = v]
            /\ UNCHANGED formErrors
       \/ \E v \in dates :
            /\ formData' = [formData EXCEPT !.date = v]
            /\ UNCHANGED formErrors
    /\ lastEvent' = <<"handleChange", routeId>>
    /\ UNCHANGED <<invoiceVars, chatVars>>
    /\ UNCHANGED <<appVars, page, routeId, saleVars, productToDelete, viewVars>>

\* Math.max(0, Number(prev.qty) + delta)
QtyAfterStep(qty, delta) == Max(0, qty + delta)

handleQtyChange ==
    \E delta \in {1, 0 - 1} :
        /\ onAddPage
        /\ formData.qty + delta <= MaxStepQty
        /\ formData' = [formData EXCEPT !.qty = QtyAfterStep(formData.qty, delta)]
        /\ UNCHANGED formErrors
        /\ lastEvent' = <<"handleQtyChange", routeId>>
        /\ UNCHANGED <<invoiceVars, chatVars>>
        /\ UNCHANGED <<appVars, page, routeId, saleVars, productToDelete, viewVars>>

checkSkuUnique(skuToCheck) ==
    ~ \E i \in 1..Len(products) :
          /\ toLowerCase(products[i].sku) = toLowerCase(skuToCheck)
          /\ products[i].id # routeId

\* SKU-<4 random digits> candidates
RandomSkus == {SkuSample, <<"S", "K", "U", "-", "7">>}

\* `SKU-${Date.now()}` at the t-th reading of the clock
TimestampSku(t) == <<"S", "K", "U", "-", "T", Digits[t + 1]>>

\* the values generateUniqueSku may return: a random candidate that passed
\* the check or, when the candidates drawn were all taken, the fallback
generateUniqueSku ==
    {s \in RandomSkus : checkSkuUnique(s)}
        \cup (IF \E s \in RandomSkus : ~checkSkuUnique(s) THEN {TimestampSku(now)} ELSE {})

\* the quantity check that only refuses an empty field
QtyRejected_ZeroOnly(qty) == qty = 0

\* the quantity check of handleSubmit
QtyRejected(qty) == qty < 1

\* the validation outcome of handleSubmit: "" when the form is accepted
SubmitVerdict ==
    IF formData.name = <<>> \/ formData.price.kind = "empty" THEN "incomplete"
    ELSE IF formErrors.price \/ ParsesToNaN(formData.price) THEN "price"
    ELSE IF QtyRejected(formData.qty) THEN "qty"
    ELSE IF formData.sku # <<>> /\ ~checkSkuUnique(formData.sku) THEN "sku"
    ELSE "ok"

handleSubmit ==
    /\ onAddPage
    /\ CASE SubmitVerdict = "incomplete" ->
              UNCHANGED <<appVars, page, routeId, formVars>>
         [] SubmitVerdict = "price" ->
              /\ formErrors' = [formErrors EXCEPT !.price = TRUE]
              /\ UNCHANGED <<appVars, page, routeId, formData>>
         [] SubmitVerdict \in {"qty", "sku"} ->
              UNCHANGED <<appVars, page, routeId, formVars>>
         [] OTHER ->
              /\ CanRecord
              /\ page = "add-product" => created < MaxCreates
              /\ \E finalSku \in (IF formData.sku = <<>> THEN generateUniqueSku
                                  ELSE {formData.sku}) :
                    LET fallback == formData.sku = <<>> /\ finalSku \notin RandomSkus
                    IN  /\ fallback => now < MaxFallbacks
                        /\ now' = IF fallback THEN now + 1 ELSE now
                        /\ handleSaveProduct(
                               [id |-> IF page = "edit-product" THEN routeId ELSE NoId,
                                name |-> formData.name, sku |-> finalSku,
                                category |-> formData.category,
                                price |-> FormatPrice(formData.price.cents),
                                qty |-> formData.qty, date |-> formData.date])
              /\ page' = "inventory"
              /\ routeId' = NoId
              /\ formData' = BlankForm
              /\ formErrors' = NoErrors
    /\ lastEvent' = <<"handleSubmit:" \o SubmitVerdict, routeId>>
    /\ UNCHANGED <<invoiceVars, chatVars>>
    /\ UNCHANGED <<saleVars, productToDelete, viewVars>>

\* ------------------------------------------------------------ Inventory view
ITEMS_PER_PAGE == 20

\* the sort a freshly mounted inventory page applies: newest first
DefaultSort == [key |-> "date", direction |-> "desc"]

matchesSearch(product) ==
    \/ includes(toLowerCase(product.name), toLowerCase(searchTerm))
    \/ includes(toLowerCase(product.sku), toLowerCase(searchTerm))
    \/ includes(toLowerCase(product.category), toLowerCase(searchTerm))

\* the first entry of the category menu
AllCategories == <<"A", "l", "l">>

matchesCategory(product) ==
    selectedCategory = AllCategories \/ product.category = selectedCategory

matchesStatus(product) ==
    selectedStatus = "All" \/ product.status = selectedStatus

\* the value a row is sorted by: the price in cents, the quantity, or the
\* time of the date; IsNaN tells that the time of an empty date is NaN
SortValue(product, key) ==
    CASE key = "price" -> product.price.cents
      [] key = "qty" -> product.qty
      [] key = "date" -> product.date

IsNaN(product, key) == key = "date" /\ product.date = NoDate

\* aValue < bValue, false as soon as one side is NaN
LessThan(a, b, key) ==
    /\ ~IsNaN(a, key)
    /\ ~IsNaN(b, key)
    /\ SortValue(a, key) < SortValue(b, key)

\* the comparator handed to Array.prototype.sort
compare(a, b, config) ==
    IF LessThan(a, b, config.key) THEN (IF config.direction = "asc" THEN 0 - 1 ELSE 1)
    ELSE IF LessThan(b, a, config.key) THEN (IF config.direction = "asc" THEN 1 ELSE 0 - 1)
    ELSE 0

\* Array.prototype.sort is stable: a row moves in front of the rows the
\* comparator puts it before and stays behind the first one it does not.
\* With every key a number the comparator is a consistent ordering and this
\* is the one result a stable sort can give; with a NaN key it is not, the
\* order is then left to the engine, and this is the order insertion gives.
RECURSIVE insert(_, _, _)
insert(sorted, row, config) ==
    IF sorted = <<>> THEN <<row>>
    ELSE IF compare(row, sorted[Len(sorted)], config) < 0
         THEN Append(insert(SubSeq(sorted, 1, Len(sorted) - 1), row, config),
                     sorted[Len(sorted)])
         ELSE Append(sorted, row)

RECURSIVE sort(_, _)
sort(rows, config) ==
    IF rows = <<>> THEN <<>>
    ELSE insert(sort(SubSeq(rows, 1, Len(rows) - 1), config), rows[Len(rows)], config)

\* the filter that forgets the category filter
filtered_AnyCategory(catalog) ==
    SelectSeq(catalog, LAMBDA product :
        matchesSearch(product) /\ matchesStatus(product))

\* step 1 of processedProducts
filtered(catalog) ==
    SelectSeq(catalog, LAMBDA product :
        matchesSearch(product) /\ matchesCategory(product) /\ matchesStatus(product))

processedProducts == sort(filtered(products), sortConfig)

\* Math.ceil(processedProducts.length / ITEMS_PER_PAGE)
totalPages == (Len(processedProducts) + ITEMS_PER_PAGE - 1) \div ITEMS_PER_PAGE

startIndex == (currentPage - 1) * ITEMS_PER_PAGE

\* Array.prototype.slice(start, end) counts from 0 and stops at the length
slice(rows, start, end) ==
    SubSeq(rows, start + 1, IF end < Len(rows) THEN end ELSE Len(rows))

paginatedProducts == slice(processedProducts, startIndex, startIndex + ITEMS_PER_PAGE)

\* -------------------------------------------------------- Inventory handlers
\* the texts typed into the inventory search input
\* the effect that resets the page leaves the page alone
PageAfterChange_Keep(changed) == currentPage

\* the effect on [searchTerm, selectedCategory, selectedStatus, sortConfig]
\* runs when one of them is a new value and shows page 1
PageAfterChange(changed) == IF changed THEN 1 ELSE currentPage

\* the handlers of the filters and the sort record the page they were called on
SearchTerms == { <<"k", "b">>, <<"c", "a", "b">>, <<"a", "c", "c">>, <<>> }

setSearchTerm ==
    \E text \in SearchTerms :
        /\ page = "inventory"
        /\ searchTerm' = text
        /\ currentPage' = PageAfterChange(text # searchTerm)
        /\ lastEvent' = <<"setSearchTerm", currentPage>>
        /\ UNCHANGED <<invoiceVars, chatVars>>
        /\ UNCHANGED <<appVars, page, routeId, saleVars, formVars, productToDelete,
                       selectedCategory, selectedStatus, sortConfig>>

\* the entries of the category menu the exploration picks
filterCategories == {AllCategories, INITIAL_CATEGORIES[1], INITIAL_CATEGORIES[2]}

setSelectedCategory ==
    \E cat \in filterCategories :
        /\ page = "inventory"
        /\ selectedCategory' = cat
        /\ currentPage' = PageAfterChange(cat # selectedCategory)
        /\ lastEvent' = <<"setSelectedCategory", currentPage>>
        /\ UNCHANGED <<invoiceVars, chatVars>>
        /\ UNCHANGED <<appVars, page, routeId, saleVars, formVars, productToDelete,
                       searchTerm, selectedStatus, sortConfig>>

statuses == {"All", "In Stock", "Low Stock", "Out of Stock"}

setSelectedStatus ==
    \E status \in statuses :
        /\ page = "inventory"
        /\ selectedStatus' = status
        /\ currentPage' = PageAfterChange(status # selectedStatus)
        /\ lastEvent' = <<"setSelectedStatus", currentPage>>
        /\ UNCHANGED <<invoiceVars, chatVars>>
        /\ UNCHANGED <<appVars, page, routeId, saleVars, formVars, productToDelete,
                       searchTerm, selectedCategory, sortConfig>>

\* every call stores a new sortConfig object, so the page is reset each time
handleSort ==
    \E key \in {"date", "price", "qty"}, direction \in {"asc", "desc"} :
        /\ page = "inventory"
        /\ sortConfig' = [key |-> key, direction |-> direction]
        /\ currentPage' = PageAfterChange(TRUE)
        /\ lastEvent' = <<"handleSort", currentPage>>
        /\ UNCHANGED <<invoiceVars, chatVars>>
        /\ UNCHANGED <<appVars, page, routeId, saleVars, formVars, productToDelete,
                       searchTerm, selectedCategory, selectedStatus>>

\* the Clear all filters button of the empty table
clearFilters ==
    /\ page = "inventory"
    /\ Len(paginatedProducts) = 0
    /\ searchTerm # <<>> \/ selectedCategory # AllCategories \/ selectedStatus # "All"
    /\ searchTerm' = <<>>
    /\ selectedCategory' = AllCategories
    /\ selectedStatus' = "All"
    /\ currentPage' = PageAfterChange(TRUE)
    /\ lastEvent' = <<"clearFilters", currentPage>>
    /\ UNCHANGED <<invoiceVars, chatVars>>
    /\ UNCHANGED <<appVars, page, routeId, saleVars, formVars, productToDelete, sortConfig>>

\* goToPage that brings an out-of-range request to the nearest page
PageAfterGoTo_Clamped(requested) ==
    IF requested < 1 THEN 1
    ELSE IF requested > totalPages THEN Max(1, totalPages)
    ELSE requested

PageAfterGoTo(requested) ==
    IF requested >= 1 /\ requested <= totalPages THEN requested ELSE currentPage

\* the Previous and Next buttons and the numbered page buttons
goToPage ==
    \E requested \in {currentPage - 1, currentPage + 1} \cup (1..totalPages) :
        /\ page = "inventory"
        /\ currentPage' = PageAfterGoTo(requested)
        /\ lastEvent' = <<"goToPage", requested>>
        /\ UNCHANGED <<invoiceVars, chatVars>>
        /\ UNCHANGED <<appVars, page, routeId, saleVars, formVars, productToDelete,
                       searchTerm, selectedCategory, selectedStatus, sortConfig>>

\* the delete button of a row of the page shown
confirmDelete ==
    \E id \in Ids(paginatedProducts) :
        /\ page = "inventory"
        /\ productToDelete' = id
        /\ lastEvent' = <<"confirmDelete", id>>
        /\ UNCHANGED <<invoiceVars, chatVars>>
        /\ UNCHANGED <<appVars, page, routeId, saleVars, formVars, viewVars>>

executeDelete ==
    /\ page = "inventory"
    /\ productToDelete # NoId
    /\ handleDeleteProduct(productToDelete)
    /\ productToDelete' = NoId
    /\ lastEvent' = <<"executeDelete", productToDelete>>
    /\ UNCHANGED <<invoiceVars, chatVars>>
    /\ UNCHANGED <<page, routeId, saleVars, formVars, viewVars>>

\* ---------------------------------------------------------------- Dashboard
\* the number on the Low Stock Items card: the products with qtyNum < 40
lowStockCount == Len(SelectSeq(products, LAMBDA p : p.qty < 40))

\* --------------------------------------------------------- Invoices handlers
\* App's handler for a new invoice: it logs the upload and notifies.  It is
\* handed to Invoices as onAddInvoice, which no handler of Invoices calls.
handleAddInvoice ==
    /\ activities' = logActivity(activities,
           <<Activity("invoice", currentUserName, "uploaded new invoice", 0, <<"I">>)>>)
    /\ notifications' = <<Notification("Invoice Uploaded", 0, <<"I">>, "success")>>
                            \o notifications
    /\ UNCHANGED <<products, created, now>>

\* choosing a file opens the new-invoice form
handleFileChange ==
    /\ page = "invoices"
    /\ isFormModalOpen' = TRUE
    /\ lastEvent' = <<"handleFileChange", NoId>>
    /\ UNCHANGED <<appVars, page, routeId, saleVars, formVars, productToDelete,
                   viewVars, invoices, chatVars>>

isRefIdUnique(refId) ==
    ~\E i \in 1..Len(invoices) : toLowerCase(invoices[i].refId) = toLowerCase(refId)

\* the reference ids Math.random() may draw
RandomRefs == { <<"I", "N", "V", "-", "1">>, <<"I", "N", "V", "-", "7">> }

\* generateRefId draws until the id is unique
generateRefId == {r \in RandomRefs : isRefIdUnique(r)}

\* the provider names and reference ids typed into the form
Providers == { <<>>, <<"A", "c">> }
TypedRefIds == { <<>>, <<"i", "n", "v", "-", "1">>, <<"I", "N", "V", "-", "9">> }

handleSaveInvoice ==
    /\ page = "invoices"
    /\ isFormModalOpen
    /\ \E provider \in Providers, refId \in TypedRefIds :
         \E finalRefId \in (IF refId # <<>> THEN {refId} ELSE generateRefId) :
           LET providerError == provider = <<>>
               refIdError == refId # <<>> /\ ~isRefIdUnique(refId)
               rejected == providerError \/ refIdError
           IN  /\ IF rejected
                  THEN UNCHANGED invoiceVars
                  ELSE /\ Len(invoices) < Len(INITIAL_INVOICES) + MaxInvoices
                       /\ invoices' = <<[refId |-> finalRefId, provider |-> provider]>>
                                          \o invoices
                       /\ isFormModalOpen' = FALSE
               /\ lastEvent' = <<IF rejected THEN "handleSaveInvoice:rejected"
                                 ELSE "handleSaveInvoice:ok", NoId>>
    /\ UNCHANGED <<appVars, page, routeId, saleVars, formVars, productToDelete,
                   viewVars, chatVars>>

\* ---------------------------------------------------------- ChatBot handlers
\* String.prototype.trim for texts whose only white space is the blank
RECURSIVE trim(_)
trim(s) ==
    IF s = <<>> THEN <<>>
    ELSE IF Head(s) = " " THEN trim(Tail(s))
    ELSE IF s[Len(s)] = " " THEN trim(SubSeq(s, 1, Len(s) - 1))
    ELSE s

\* the texts typed into the chat input
ChatInputs == { <<>>, <<" ">>, <<"h", "i">>, <<"o", "k", " ">> }

setInputValue ==
    \E text \in ChatInputs :
        /\ inputValue' = text
        /\ lastEvent' = <<"setInputValue", NoId>>
        /\ UNCHANGED <<appVars, page, routeId, saleVars, formVars, productToDelete,
                       viewVars, invoiceVars, messages, isLoading, request>>

\* if (!inputValue.trim() || isLoading) return
SendIgnored == trim(inputValue) = <<>> \/ isLoading

\* handleSendMessage up to its await: the input is cleared, the user message
\* is appended, isLoading is set and generateContent is called
handleSendMessage ==
    /\ IF SendIgnored
       THEN UNCHANGED chatVars
       ELSE /\ Len(SelectSeq(messages, LAMBDA m : m.role = "user")) < MaxChatTurns
            /\ inputValue' = <<>>
            /\ messages' = Append(messages, [role |-> "user", text |-> inputValue])
            /\ isLoading' = TRUE
            /\ request' = "pending"
    /\ lastEvent' = <<IF SendIgnored THEN "handleSendMessage:ignored"
                      ELSE "handleSendMessage", NoId>>
    /\ UNCHANGED <<appVars, page, routeId, saleVars, formVars, productToDelete,
                   viewVars, invoiceVars>>

\* response.text || "I'm sorry, I couldn't generate a response at the moment."
ResponseTexts == {"reply", "fallback"}

\* the promise is fulfilled: the rest of the try block, then finally
generateContentFulfilled ==
    /\ request = "pending"
    /\ \E responseText \in ResponseTexts :
          messages' = Append(messages, [role |-> "model", text |-> responseText])
    /\ isLoading' = FALSE
    /\ request' = NoRequest
    /\ lastEvent' = <<"generateContent:fulfilled", NoId>>
    /\ UNCHANGED <<appVars, page, routeId, saleVars, formVars, productToDelete,
                   viewVars, invoiceVars, inputValue>>

\* the catch block without the finally after it
generateContentRejected_NoFinally ==
    /\ request = "pending"
    /\ messages' = Append(messages, [role |-> "model", text |-> "error"])
    /\ request' = NoRequest
    /\ lastEvent' = <<"generateContent:rejected", NoId>>
    /\ UNCHANGED <<appVars, page, routeId, saleVars, formVars, productToDelete,
                   viewVars, invoiceVars, inputValue, isLoading>>

\* the client or the call throws, or the promise is rejected: the catch
\* block, then finally
generateContentRejected ==
    /\ request = "pending"
    /\ messages' = Append(messages, [role |-> "model", text |-> "error"])
    /\ isLoading' = FALSE
    /\ request' = NoRequest
    /\ lastEvent' = <<"generateContent:rejected", NoId>>
    /\ UNCHANGED <<appVars, page, routeId, saleVars, formVars, productToDelete,
                   viewVars, invoiceVars, inputValue>>

\* ---------------------------------------------------------------- navigation
Pages == {"dashboard", "register-sale", "inventory", "add-product", "edit-product",
          "invoices"}

\* ids an /edit-product/:id location may carry: products in the catalog and
\* the initial products, which the history may still point at after a delete
EditableIds == Ids(products) \cup {CableProduct.id, SampleProduct(0).id}

\* a route change unmounts the old page and mounts the new one with its
\* initial component state; the dashboard's Low Stock card opens the
\* inventory page with that status filter
Navigate ==
    \E to \in Pages, id \in EditableIds \cup {NoId}, status \in {"All", "Low Stock"} :
        /\ to # page
        /\ status # "All" => (page = "dashboard" /\ to = "inventory")
        /\ (to = "edit-product") = (id # NoId)
        /\ ~(onAddPage /\ to \in {"add-product", "edit-product"})
        /\ page' = to
        /\ routeId' = id
        /\ cart' = <<>>
        /\ searchQuery' = <<>>
        /\ formData' = IF to = "edit-product" THEN MountedForm(id) ELSE BlankForm
        /\ formErrors' = NoErrors
        /\ productToDelete' = NoId
        /\ searchTerm' = <<>>
        /\ selectedCategory' = AllCategories
        /\ selectedStatus' = status
        /\ sortConfig' = DefaultSort
        /\ currentPage' = 1
        /\ lastEvent' = <<"Navigate", id>>
        /\ invoices' = INITIAL_INVOICES
        /\ isFormModalOpen' = FALSE
        /\ UNCHANGED chatVars
        /\ UNCHANGED appVars

\* ------------------------------------------------------------ specification
Init ==
    /\ \E q \in InitQtys : products = <<CableProduct, SampleProduct(q)>>
    /\ activities = INITIAL_ACTIVITIES
    /\ notifications = INITIAL_NOTIFICATIONS
    /\ created = 0
    /\ now = 0
    /\ page = "dashboard"
    /\ routeId = NoId
    /\ cart = <<>>
    /\ searchQuery = <<>>
    /\ formData = BlankForm
    /\ formErrors = NoErrors
    /\ productToDelete = NoId
    /\ searchTerm = <<>>
    /\ selectedCategory = AllCategories
    /\ selectedStatus = "All"
    /\ sortConfig = DefaultSort
    /\ currentPage = 1
    /\ invoices = INITIAL_INVOICES
    /\ isFormModalOpen = FALSE
    /\ messages = INITIAL_MESSAGES
    /\ inputValue = <<>>
    /\ isLoading = FALSE
    /\ request = NoRequest
    /\ lastEvent = <<"mount", NoId>>

\* In the form, a name and a SKU are typed for a new product.
Next ==
    \/ Navigate
    \/ setSearchQuery(TypedInputs)
    \/ clickResult(MaxCartQty)
    \/ handleKeyDown(MaxCartQty)
    \/ updateCartQty(MaxCartQty)
    \/ removeFromCart
    \/ handleCompleteSale
    \/ handleChange(IF page = "add-product" THEN FormNames ELSE {},
                    IF page = "add-product" THEN FormSkus ELSE {}, {})
    \/ handleQtyChange
    \/ handleSubmit
    \/ confirmDelete
    \/ executeDelete
    \/ handleFileChange
    \/ handleSaveInvoice

Spec == Init /\ [][Next]_vars

\* The register-sale page on its own, just mounted over one of three
\* catalogs; line quantities are limited by the stock only.
SaleCap == LowStockThreshold + 2

InitSale ==
    /\ products \in { <<BaseProduct, CableProduct, SampleProduct(2)>>,
                      <<SampleProduct(LowStockThreshold)>>,
                      <<SampleProduct(LowStockThreshold + 1)>> }
    /\ activities = INITIAL_ACTIVITIES
    /\ notifications = INITIAL_NOTIFICATIONS
    /\ created = 0
    /\ now = 0
    /\ page = "register-sale"
    /\ routeId = NoId
    /\ cart = <<>>
    /\ searchQuery = <<>>
    /\ formData = BlankForm
    /\ formErrors = NoErrors
    /\ productToDelete = NoId
    /\ searchTerm = <<>>
    /\ selectedCategory = AllCategories
    /\ selectedStatus = "All"
    /\ sortConfig = DefaultSort
    /\ currentPage = 1
    /\ invoices = INITIAL_INVOICES
    /\ isFormModalOpen = FALSE
    /\ messages = INITIAL_MESSAGES
    /\ inputValue = <<>>
    /\ isLoading = FALSE
    /\ request = NoRequest
    /\ lastEvent = <<"Navigate", NoId>>

NextSale ==
    \/ setSearchQuery(ScannedInputs)
    \/ clickResult(SaleCap)
    \/ handleKeyDown(SaleCap)
    \/ updateCartQty(SaleCap)
    \/ removeFromCart
    \/ handleCompleteSale

SpecSale == InitSale /\ [][NextSale]_vars

\* The product form and the inventory page's delete, from a freshly opened
\* inventory page; quantities are typed, names only where the form opens
\* empty (a new product, or the edit route of an id the catalog no longer
\* has), and the date field is touched only while the cable is edited.  The SKU field
\* takes the cable's SKU in lower case, a
\* text spelling the first SKU-<timestamp> fallback in lower case, or is left
\* empty.
CatalogSkus == { <<"c", "b", "l">>, <<"s", "k", "u", "-", "T", "0">>, <<>> }

\* the date field is cleared
FormDates == {NoDate}

InitCatalog ==
    /\ products = <<CableProduct, SampleProduct(LowStockThreshold)>>
    /\ activities = INITIAL_ACTIVITIES
    /\ notifications = INITIAL_NOTIFICATIONS
    /\ created = 0
    /\ now = 0
    /\ page = "inventory"
    /\ routeId = NoId
    /\ cart = <<>>
    /\ searchQuery = <<>>
    /\ formData = BlankForm
    /\ formErrors = NoErrors
    /\ productToDelete = NoId
    /\ searchTerm = <<>>
    /\ selectedCategory = AllCategories
    /\ selectedStatus = "All"
    /\ sortConfig = DefaultSort
    /\ currentPage = 1
    /\ invoices = INITIAL_INVOICES
    /\ isFormModalOpen = FALSE
    /\ messages = INITIAL_MESSAGES
    /\ inputValue = <<>>
    /\ isLoading = FALSE
    /\ request = NoRequest
    /\ lastEvent = <<"Navigate", NoId>>

NextCatalog ==
    \/ Navigate
    \/ handleChange(IF routeId \notin Ids(products) THEN FormNames ELSE {}, CatalogSkus,
                    IF routeId = CableProduct.id THEN FormDates ELSE {})
    \/ handleSubmit
    \/ confirmDelete
    \/ executeDelete

SpecCatalog == InitCatalog /\ [][NextCatalog]_vars

\* The inventory page on its own, just opened over a catalog of one row more
\* than a page holds: the mock products 2, 3, 6 and 7 to 24, as they are or
\* after the cable was saved from the edit form with 40 units and the date
\* field cleared.  Rows are deleted from the second page, and the table is
\* only operated while the delete dialog is closed.
MockRows ==
    <<BaseProduct, CableProduct, SampleProduct(2)>>
        \o [k \in 1..(ITEMS_PER_PAGE - 2) |-> ExtraProduct(6 + k)]

EditedCable ==
    [CableProduct EXCEPT !.qty = LowStockThreshold,
                         !.status = getStatus(LowStockThreshold),
                         !.date = NoDate]

InitInventory ==
    /\ products \in {MockRows, [MockRows EXCEPT ![2] = EditedCable]}
    /\ activities = INITIAL_ACTIVITIES
    /\ notifications = INITIAL_NOTIFICATIONS
    /\ created = 0
    /\ now = 0
    /\ page = "inventory"
    /\ routeId = NoId
    /\ cart = <<>>
    /\ searchQuery = <<>>
    /\ formData = BlankForm
    /\ formErrors = NoErrors
    /\ productToDelete = NoId
    /\ searchTerm = <<>>
    /\ selectedCategory = AllCategories
    /\ selectedStatus = "All"
    /\ sortConfig = DefaultSort
    /\ currentPage = 1
    /\ invoices = INITIAL_INVOICES
    /\ isFormModalOpen = FALSE
    /\ messages = INITIAL_MESSAGES
    /\ inputValue = <<>>
    /\ isLoading = FALSE
    /\ request = NoRequest
    /\ lastEvent = <<"Navigate", NoId>>

NextInventory ==
    \/ productToDelete = NoId /\ setSearchTerm
    \/ productToDelete = NoId /\ setSelectedCategory
    \/ productToDelete = NoId /\ setSelectedStatus
    \/ productToDelete = NoId /\ handleSort
    \/ productToDelete = NoId /\ clearFilters
    \/ productToDelete = NoId /\ goToPage
    \/ productToDelete = NoId /\ currentPage > 1 /\ confirmDelete
    \/ executeDelete

SpecInventory == InitInventory /\ [][NextInventory]_vars

\* The chat window on its own.  A generateContent call that was made is
\* settled in the end, fulfilled or rejected.
InitChat == Init

NextChat ==
    \/ setInputValue
    \/ handleSendMessage
    \/ generateContentFulfilled
    \/ generateContentRejected

SpecChat ==
    /\ InitChat
    /\ [][NextChat]_vars
    /\ WF_vars(generateContentFulfilled \/ generateContentRejected)

\* ==================================================================== claims
\* the catalog quantity of product id, -1 when the catalog has no such product
StockOf(catalog, id) ==
    IF id \in Ids(catalog)
    THEN (CHOOSE p \in {catalog[i] : i \in 1..Len(catalog)} : p.id = id).qty
    ELSE 0 - 1

\* the cart lines of product id
LinesOf(lines, id) == SelectSeq(lines, LAMBDA item : item.id = id)

\* the records a step put in front of a newest-first list
Prepended(before, after) == SubSeq(after, 1, Len(after) - Len(before))

CountWhere(seq, Test(_)) == Len(SelectSeq(seq, Test))

\* C1: every cart line has a quantity between 1 and the current catalog
\* stock of the product it references.
C1_CartWithinStock ==
    \A i \in 1..Len(cart) :
        /\ cart[i].qty >= 1
        /\ cart[i].qty <= StockOf(products, cart[i].id)

\* a line filled up to its stock by adds, after an earlier sale was committed
C1_Witness ==
    /\ Len(activities) > Len(INITIAL_ACTIVITIES)
    /\ lastEvent[1] = "addToCart"
    /\ \E i \in 1..Len(cart) :
          /\ cart[i].id = lastEvent[2]
          /\ cart[i].qty = StockOf(products, cart[i].id)

\* C2: a commit of a non-empty cart sets every product with a cart line to
\* max(0, old quantity - line quantity), leaves the other products and the
\* catalog order unchanged and empties the cart; lines [(A,3),(B,2)] against
\* stock {A:5,B:2} give {A:2,B:0} and B Out of Stock.
C2_CommitEffect ==
    [][ (handleCompleteSale /\ cart # <<>>) =>
          /\ cart' = <<>>
          /\ Len(products') = Len(products)
          /\ \A i \in 1..Len(products) :
                LET p == products[i]
                    lines == LinesOf(cart, p.id)
                IN  IF lines = <<>>
                    THEN products'[i] = p
                    ELSE /\ products'[i].id = p.id
                         /\ products'[i].qty =
                               (IF p.qty >= lines[1].qty THEN p.qty - lines[1].qty ELSE 0)
          /\ ( /\ [i \in 1..Len(cart) |-> <<cart[i].id, cart[i].qty>>] = << <<2, 3>>, <<6, 2>> >>
               /\ StockOf(products, 2) = 5
               /\ StockOf(products, 6) = 2 )
             => /\ StockOf(products', 2) = 2
                /\ StockOf(products', 6) = 0
                /\ \A i \in 1..Len(products') :
                      products'[i].id = 6 => products'[i].status = "Out of Stock"
      ]_vars

\* the catalog after committing [(A,3),(B,2)] against {A:5,B:2}
C2_Witness ==
    /\ lastEvent[1] = "handleCompleteSale"
    /\ cart = <<>>
    /\ activities[1].action = "fulfilled order" /\ activities[1].n = 5
    /\ Len(activities) = Len(INITIAL_ACTIVITIES) + 2
    /\ StockOf(products, 2) = 2
    /\ StockOf(products, 6) = 0

\* C3: a commit of an empty cart changes neither the catalog, the activity
\* log nor the notification list, and records no sale.
C3_EmptyCommitRejected ==
    [][ (handleCompleteSale /\ cart = <<>>) =>
          /\ UNCHANGED <<products, activities, notifications>>
          /\ cart' = <<>>
      ]_vars

\* an empty cart was committed after an earlier sale had gone through
C3_Witness ==
    /\ lastEvent[1] = "handleCompleteSale:empty"
    /\ cart = <<>>
    /\ Len(activities) > Len(INITIAL_ACTIVITIES)

\* the step is an addItem of product p: a result click or an accepted scan
AddItemStep(p) ==
    /\ p.qty > 0
    /\ \/ lastEvent' = <<"addToCart", p.id>>
       \/ /\ lastEvent' = <<"handleKeyDown", p.id>>
          /\ toLowerCase(p.sku) = toLowerCase(searchQuery)

\* C4: each addItem(p) on a product with stock s > 0 leaves exactly one line
\* for p, whose quantity is min(previous quantity + 1, s): s after the s-th
\* call from an empty cart and still s after the next one.
C4_AddUpToStock ==
    [][ \A i \in 1..Len(products) :
          LET p == products[i]
              before == LinesOf(cart, p.id)
              old == IF before = <<>> THEN 0 ELSE before[1].qty
          IN  AddItemStep(p) =>
                /\ Len(LinesOf(cart', p.id)) = 1
                /\ LinesOf(cart', p.id)[1].qty = (IF old + 1 <= p.qty THEN old + 1 ELSE p.qty)
      ]_vars

\* the line of a product with at least 40 units was filled to its stock
C4_Witness ==
    /\ lastEvent[1] = "addToCart"
    /\ Len(cart) = 1
    /\ cart[1].id = lastEvent[2]
    /\ cart[1].qty = StockOf(products, cart[1].id)
    /\ cart[1].qty >= LowStockThreshold

\* the step is changeQuantity(id, delta)
ChangeQuantityStep(id, delta) ==
    lastEvent' = <<IF delta = 1 THEN "updateCartQty+" ELSE "updateCartQty-", id>>

\* C5: changeQuantity(id, delta) moves the line to quantity + delta only when
\* 1 <= quantity + delta <= maxQty and otherwise leaves the whole cart
\* unchanged; no cart line has quantity 0 or a quantity above maxQty.
C5_ChangeQuantityInRange ==
    [][ /\ \A i \in 1..Len(cart) : \A delta \in {1, 0 - 1} :
              (ChangeQuantityStep(cart[i].id, delta) /\ Len(LinesOf(cart, cart[i].id)) = 1) =>
                  IF 1 <= cart[i].qty + delta /\ cart[i].qty + delta <= cart[i].maxQty
                  THEN cart' = [cart EXCEPT ![i].qty = cart[i].qty + delta]
                  ELSE cart' = cart
        /\ \A i \in 1..Len(cart') : cart'[i].qty >= 1 /\ cart'[i].qty <= cart'[i].maxQty
      ]_vars

\* an increment was asked of a line whose single unit is all the stock
C5_Witness ==
    /\ lastEvent[1] = "updateCartQty+"
    /\ \E i \in 1..Len(cart) : cart[i].id = lastEvent[2] /\ cart[i].qty = 1 /\ cart[i].maxQty = 1

\* no product in stock carries the scanned text as its SKU
NothingToAdd ==
    \A i \in 1..Len(products) :
        toLowerCase(products[i].sku) = toLowerCase(searchQuery) => products[i].qty = 0

\* C6: addItem on a product without stock, or on a text that names no
\* product, changes neither the cart nor the search input.
C6_AddWithoutStockIsNoOp ==
    [][ (lastEvent'[1] = "handleKeyDown" /\ NothingToAdd) => UNCHANGED <<cart, searchQuery>>
      ]_vars

\* the SKU of a product without stock was scanned into a cart that has a line
C6_Witness ==
    /\ lastEvent[1] = "handleKeyDown"
    /\ lastEvent[2] # NoId
    /\ StockOf(products, lastEvent[2]) = 0
    /\ searchQuery # <<>>
    /\ cart # <<>>

\* C7: every catalog quantity is >= 0, and the quantity a sale leaves is >= 0
\* also for a line that asks for more than the stock.
C7_QuantityNonNegative ==
    /\ \A i \in 1..Len(products) : products[i].qty >= 0
    /\ \A i \in 1..Len(products) : \A sold \in 1..(products[i].qty + MaxCartQty) :
          SaleNewQty(products[i].qty, sold) >= 0

\* a product was created and then another one sold out
C7_Witness ==
    /\ lastEvent[1] = "handleCompleteSale"
    /\ activities[2].action = "Stock depleted for"
    /\ \E i, j \in 1..Len(products) :
          products[i].id = NewId(0) /\ products[j].qty = 0 /\ products[j].id = 6

\* C8: the stored status of every catalog product is the status derived from
\* its current quantity.
C8_StatusFollowsQuantity ==
    \A i \in 1..Len(products) : products[i].status = getStatus(products[i].qty)

\* a sale took a product from In Stock to Low Stock
C8_Witness ==
    /\ lastEvent[1] = "handleCompleteSale"
    /\ activities[2].action = "Low stock warning for"
    /\ \E i \in 1..Len(products) :
          products[i].qty = LowStockThreshold - 1 /\ products[i].status = "Low Stock"

\* the three-valued status of the claim
ThreeValued(qty) ==
    CASE qty = 0 -> "Out of Stock"
      [] qty > 0 /\ qty < 40 -> "Low Stock"
      [] qty >= 40 -> "In Stock"

\* C9: status is Out of Stock at 0, Low Stock for 0 < quantity < 40 and In
\* Stock from 40 on; 0, 39 and 40 give Out of Stock, Low Stock and In Stock.
C9_ThreeValuedStatus ==
    /\ \A i \in 1..Len(products) :
          products[i].qty >= 0 => getStatus(products[i].qty) = ThreeValued(products[i].qty)
    /\ \A i, j, k \in 1..Len(products) :
          (products[i].qty = 0 /\ products[j].qty = 39 /\ products[k].qty = 40) =>
              /\ products[i].status = "Out of Stock"
              /\ products[j].status = "Low Stock"
              /\ products[k].status = "In Stock"

\* the catalog holds quantities 0, 39 and 40 side by side
C9_Witness ==
    \E i, j, k \in 1..Len(products) :
        products[i].qty = 0 /\ products[j].qty = 39 /\ products[k].qty = 40

\* alert records among recs that carry the given action for the named product
AlertCount(recs, action, name) ==
    CountWhere(recs, LAMBDA r : r.type = "alert" /\ r.action = action /\ r.target = name)

NoteCount(recs, title, name) ==
    CountWhere(recs, LAMBDA r : r.title = title /\ r.target = name)

\* C10: for each committed line with quantities (b, a) before and after, the
\* commit emits a Low-Stock signal exactly when b >= 40 and 0 < a < 40, an
\* Out-of-Stock signal exactly when b > 0 and a = 0, and never both.
C10_SaleSignals ==
    [][ (handleCompleteSale /\ cart # <<>>) =>
          \A i \in 1..Len(cart) :
             LET id == cart[i].id
                 name == cart[i].name
                 b == StockOf(products, id)
                 a == StockOf(products', id)
                 acts == Prepended(activities, activities')
                 notes == Prepended(notifications, notifications')
                 low == b >= 40 /\ 0 < a /\ a < 40
                 out == b > 0 /\ a = 0
             IN  /\ AlertCount(acts, "Low stock warning for", name) = (IF low THEN 1 ELSE 0)
                 /\ NoteCount(notes, "Low Stock Alert", name) = (IF low THEN 1 ELSE 0)
                 /\ AlertCount(acts, "Stock depleted for", name) = (IF out THEN 1 ELSE 0)
                 /\ NoteCount(notes, "Out of Stock Alert", name) = (IF out THEN 1 ELSE 0)
                 /\ ~(low /\ out)
      ]_vars

\* a sale took a product from at least 40 units to none
C10_Witness ==
    /\ lastEvent[1] = "handleCompleteSale"
    /\ activities[1].action = "fulfilled order" /\ activities[1].n >= 40
    /\ activities[2].action = "Stock depleted for"
    /\ \E i \in 1..Len(products) : products[i].qty = 0

\* two catalog entries at different positions whose SKUs are equal ignoring case
SameSku(catalog, i, j) ==
    i # j /\ toLowerCase(catalog[i].sku) = toLowerCase(catalog[j].sku)

\* C11: no two distinct catalog products have SKUs that are equal ignoring
\* case, whatever products were created, edited and deleted, with typed or
\* generated SKUs.
C11_SkuUnique ==
    \A i, j \in 1..Len(products) : ~SameSku(products, i, j)

\* some catalog product other than the one being edited carries the SKU,
\* ignoring case
SkuTakenByOther(sku) ==
    \E i \in 1..Len(products) :
        products[i].id # routeId /\ toLowerCase(products[i].sku) = toLowerCase(sku)

\* the form passes every check that precedes the SKU check
FormOtherwiseValid ==
    /\ formData.name # <<>>
    /\ formData.price.kind = "decimal"
    /\ ~formErrors.price
    /\ formData.qty >= 1

\* C12: a submit whose SKU equals, ignoring case, the SKU of a different
\* catalog product is rejected with the duplicate-SKU error and changes
\* neither the catalog nor the activity log; a submit that edits a product
\* and keeps its own SKU is accepted.
C12_DuplicateSkuRejected ==
    [][ handleSubmit =>
          /\ (formData.sku # <<>> /\ SkuTakenByOther(formData.sku)) =>
                /\ UNCHANGED <<products, activities, page>>
                /\ FormOtherwiseValid => lastEvent'[1] = "handleSubmit:sku"
          /\ \A i \in 1..Len(products) :
                ( /\ page = "edit-product"
                  /\ products[i].id = routeId
                  /\ formData.sku = products[i].sku
                  /\ FormOtherwiseValid ) =>
                    /\ page' = "inventory"
                    /\ products'[i].sku = products[i].sku
                    /\ products'[i].qty = formData.qty
      ]_vars

\* the positions of the catalog products whose SKU equals the text ignoring case
Matches(text) ==
    {i \in 1..Len(products) : toLowerCase(products[i].sku) = toLowerCase(text)}

\* the cart after one unit of product p was added, never beyond p's stock
WithOneMore(lines, p) ==
    IF LinesOf(lines, p.id) = <<>>
    THEN Append(lines, [id |-> p.id, name |-> p.name, price |-> p.price.cents,
                        qty |-> 1, maxQty |-> p.qty, sku |-> p.sku])
    ELSE [i \in 1..Len(lines) |->
             IF lines[i].id = p.id /\ lines[i].qty < p.qty
             THEN [lines[i] EXCEPT !.qty = lines[i].qty + 1]
             ELSE lines[i]]

\* C13: Enter adds one unit of product p, as addItem(p) does, when the search
\* text equals the SKU of p alone ignoring case and p has stock; when no SKU
\* equals the text, or the product it names has no stock, Enter leaves the
\* cart unchanged.
C13_ExactMatchFastPath ==
    [][ lastEvent'[1] = "handleKeyDown" =>
          /\ \A i \in Matches(searchQuery) :
                (Matches(searchQuery) = {i} /\ products[i].qty > 0) =>
                    /\ cart' = WithOneMore(cart, products[i])
                    /\ lastEvent'[2] = products[i].id
          /\ ( \/ Matches(searchQuery) = {}
               \/ \E i \in Matches(searchQuery) :
                     Matches(searchQuery) = {i} /\ products[i].qty = 0 ) =>
                cart' = cart
      ]_vars

\* a scan in lower case added a second unit to the line of an in-stock product
C13_Witness ==
    /\ lastEvent[1] = "handleKeyDown"
    /\ searchQuery = <<>>
    /\ \E i \in 1..Len(cart) :
          /\ cart[i].id = lastEvent[2]
          /\ cart[i].qty = 2
          /\ cart[i].sku # toLowerCase(cart[i].sku)
          /\ StockOf(products, cart[i].id) > 2

\* C14: after every addItem on a product in stock, by a click on a search
\* result or by Enter on its SKU, the search input is empty.
C14_AddClearsSearch ==
    [][ \A i \in 1..Len(products) :
          AddItemStep(products[i]) => searchQuery' = <<>>
      ]_vars

\* C15: addItem on a product in stock that has no cart line appends a line
\* with quantity 1, the catalog price of that moment as unit price and the
\* catalog stock of that moment as maxQty; no step changes the unit price of
\* a line that stays in the cart.
C15_NewLineSnapshot ==
    [][ /\ \A i \in 1..Len(products) :
              LET p == products[i]
              IN  (AddItemStep(p) /\ LinesOf(cart, p.id) = <<>>) =>
                    /\ Len(cart') = Len(cart) + 1
                    /\ SubSeq(cart', 1, Len(cart)) = cart
                    /\ cart'[Len(cart')].id = p.id
                    /\ cart'[Len(cart')].qty = 1
                    /\ FormatPrice(cart'[Len(cart')].price) = p.price
                    /\ cart'[Len(cart')].maxQty = p.qty
        /\ \A i \in 1..Len(cart) : \A j \in 1..Len(cart') :
              cart'[j].id = cart[i].id => cart'[j].price = cart[i].price
      ]_vars

\* a second line was just appended with its product's price and stock
C15_Witness ==
    /\ lastEvent[1] = "addToCart"
    /\ Len(cart) >= 2
    /\ cart[Len(cart)].id = lastEvent[2]
    /\ cart[Len(cart)].qty = 1
    /\ cart[Len(cart)].price > 0
    /\ cart[Len(cart)].maxQty = StockOf(products, lastEvent[2])
    /\ cart[1].qty > 1

\* the sum of f over a set of positions
RECURSIVE SumOver(_, _)
SumOver(S, f) ==
    IF S = {} THEN 0
    ELSE LET x == CHOOSE y \in S : TRUE IN f[x] + SumOver(S \ {x}, f)

\* the orders in which n lines can be inserted
Orders(n) == {f \in [1..n -> 1..n] : \A a, b \in 1..n : f[a] = f[b] => a = b}

C17_RemoveItemFrame ==
    [][ \A k \in 1..Len(cart) :
          lastEvent' = <<"removeFromCart", cart[k].id>> =>
             /\ cart' = SubSeq(cart, 1, k - 1) \o SubSeq(cart, k + 1, Len(cart))
             /\ products' = products
      ]_vars

\* the first of two lines was removed; the line that stays holds two units
C17_Witness ==
    /\ lastEvent[1] = "removeFromCart"
    /\ LinesOf(cart, lastEvent[2]) = <<>>
    /\ Len(cart) = 1
    /\ cart[1].qty = 2
    /\ cart[1].id > lastEvent[2]

\* text contains term, letter case aside
ContainsIgnoringCase(text, term) ==
    \E k \in 0..(Len(text) - Len(term)) :
        \A j \in 1..Len(term) : LowerChar(text[k + j]) = LowerChar(term[j])

\* the position of the row with the given id
PosIn(rows, id) == CHOOSE k \in 1..Len(rows) : rows[k].id = id

\* C18: a product is in the filtered view exactly when its name, SKU or
\* category contains the search term ignoring case, the category filter is
\* All or its category, and the status filter is All or the status derived
\* from its quantity; when nothing matches the view has no rows.
C18_FilterPredicate ==
    LET view == processedProducts
        InView(p) ==
            /\ \/ ContainsIgnoringCase(p.name, searchTerm)
               \/ ContainsIgnoringCase(p.sku, searchTerm)
               \/ ContainsIgnoringCase(p.category, searchTerm)
            /\ selectedCategory = <<"A", "l", "l">> \/ selectedCategory = p.category
            /\ selectedStatus = "All" \/ selectedStatus = ThreeValued(p.qty)
        expected == {products[i] : i \in {k \in 1..Len(products) : InView(products[k])}}
    IN  /\ {view[i] : i \in 1..Len(view)} = expected
        /\ Len(view) = Cardinality(expected)
        /\ expected = {} => view = <<>>

\* a term in lower case, a category and a status together leave two rows
C18_Witness ==
    /\ searchTerm = <<"a", "c", "c">>
    /\ selectedCategory = INITIAL_CATEGORIES[2]
    /\ selectedStatus = "Low Stock"
    /\ Len(processedProducts) = 2

\* C19: the view is ordered by the sort key in the sort direction, rows with
\* equal keys keep their catalog order in both directions, and the view in
\* the opposite direction has rows with distinct keys in the reverse order
\* and tied rows in the same order.
C19_StableSort ==
    LET view == processedProducts
        key == sortConfig.key
        asc == sortConfig.direction = "asc"
        Known(r) == ~(key = "date" /\ r.date = NoDate)
        Key(r) == IF key = "price" THEN r.price.cents
                  ELSE IF key = "qty" THEN r.qty ELSE r.date
        opposite == sort(filtered(products),
                         [key |-> key, direction |-> IF asc THEN "desc" ELSE "asc"])
    IN  \A i, j \in 1..Len(view) :
           (i < j /\ Known(view[i]) /\ Known(view[j])) =>
              /\ IF asc THEN Key(view[i]) <= Key(view[j]) ELSE Key(view[i]) >= Key(view[j])
              /\ Key(view[i]) = Key(view[j]) =>
                    /\ PosIn(products, view[i].id) < PosIn(products, view[j].id)
                    /\ PosIn(opposite, view[i].id) < PosIn(opposite, view[j].id)
              /\ Key(view[i]) # Key(view[j]) =>
                    PosIn(opposite, view[i].id) > PosIn(opposite, view[j].id)

\* C20: with 20 rows to a page the page count is the filtered count divided
\* by 20 and rounded up, page n shows the filtered rows (n-1)*20+1 to
\* min(n*20, count), and goToPage(p) with p below 1 or above the page count
\* leaves the current page as it is.
C20_Pagination ==
    /\ [](LET view == processedProducts
              count == Len(view)
              pages == totalPages
              first == (currentPage - 1) * 20 + 1
              last == IF currentPage * 20 < count THEN currentPage * 20 ELSE count
          IN  /\ pages * 20 >= count
              /\ (pages - 1) * 20 < count
              /\ paginatedProducts =
                    [k \in 1..(IF last >= first THEN last - first + 1 ELSE 0) |->
                        view[first + k - 1]])
    /\ [][ lastEvent'[1] = "goToPage" =>
              LET p == lastEvent'[2]
                  pages == totalPages
              IN  currentPage' = (IF p < 1 \/ p > pages THEN currentPage ELSE p)
         ]_vars

\* page 3 was asked for on the second of two pages, which shows one row
C20_Witness ==
    /\ lastEvent = <<"goToPage", 3>>
    /\ currentPage = 2
    /\ totalPages = 2
    /\ Len(paginatedProducts) = 1

\* C21: a step that changes the search term, the category filter, the
\* status filter or the sort key or direction leaves the inventory on page
\* 1, whatever page was shown before.
C21_ChangeResetsPage ==
    [][ (page = "inventory" /\ page' = "inventory" /\
         (searchTerm' # searchTerm \/ selectedCategory' # selectedCategory
            \/ selectedStatus' # selectedStatus \/ sortConfig' # sortConfig))
        => currentPage' = 1 ]_vars

\* the status filter was switched on page 2 and page 1 is shown
C21_Witness ==
    /\ lastEvent = <<"setSelectedStatus", 2>>
    /\ selectedStatus = "In Stock"
    /\ currentPage = 1

\* C24: whenever the filtered list has rows, the current page lies between
\* 1 and the page count, so the page shown is not empty while products match.
C24_PageValid ==
    LET count == Len(processedProducts)
    IN  count > 0 =>
           /\ currentPage >= 1
           /\ currentPage <= totalPages
           /\ paginatedProducts # <<>>

\* C22: every step leaves the activity log as it is or puts new records in
\* front of it; the records already in the log stay, unmodified and in the
\* same order, behind the new ones.
C22_LogAppendOnly ==
    [][ /\ Len(activities') >= Len(activities)
        /\ SubSeq(activities', Len(activities') - Len(activities) + 1, Len(activities'))
              = activities ]_vars

\* a product save and then a sale were logged in front of the initial records
C22_Witness ==
    /\ Len(activities) = Len(INITIAL_ACTIVITIES) + 2
    /\ activities[1].action = "fulfilled order"
    /\ activities[2].type \in {"add", "edit"}
    /\ SubSeq(activities, 3, Len(activities)) = INITIAL_ACTIVITIES

\* C23: every successful product creation, product edit, sale commit and
\* invoice save adds at least one record to the activity log.
C23_MutationsLogged ==
    [][ ( \/ lastEvent'[1] = "handleSubmit:ok" /\ products' # products
          \/ lastEvent'[1] = "handleCompleteSale"
          \/ lastEvent'[1] = "handleSaveInvoice:ok" )
        => Len(activities') > Len(activities) ]_vars

\* C25: the cart holds at most one line for each product id.
C25_OneLinePerProduct ==
    \A i, j \in 1..Len(cart) : cart[i].id = cart[j].id => i = j

\* the product of the second line was added again and the cart still has
\* two lines, the second with quantity 2
C25_Witness ==
    /\ Len(cart) = 2
    /\ cart[2].qty = 2
    /\ lastEvent = <<"addToCart", cart[2].id>>

\* C26: on the register-sale page the maxQty of every cart line equals the
\* current catalog stock of the line's product, so the bound addToCart reads
\* from the catalog and the bound updateCartQty reads from the line agree.
C26_MaxQtyIsStock ==
    \A i \in 1..Len(cart) :
        /\ FindById(products, cart[i].id) # <<>>
        /\ cart[i].maxQty = FindById(products, cart[i].id)[1].qty

\* a sale was committed and a product was put in the cart after it
C26_Witness ==
    /\ cart # <<>>
    /\ activities[1].action = "fulfilled order"
    /\ cart[1].maxQty = FindById(products, cart[1].id)[1].qty
    /\ cart[1].maxQty \notin InitQtys

\* the 'created new product' records among the given records
CreationRecords(records) ==
    SelectSeq(records, LAMBDA r : r.action = "created new product")

\* C27: a product save that logs 'created new product' inserts exactly one
\* product into the catalog in the same step, and logs it once; a save whose
\* id matches no catalog product does not log a creation without adding one.
C27_CreationLoggedIffInserted ==
    [][ lastEvent'[1] = "handleSubmit:ok" =>
          LET logged == Len(CreationRecords(Prepended(activities, activities')))
          IN  /\ logged <= 1
              /\ logged = 1 =>
                    /\ Len(products') = Len(products) + 1
                    /\ Ids(products') # Ids(products)
                    /\ Tail(products') = products ]_vars

\* C28: a product save adds a Low Stock Alert or Out of Stock Alert
\* notification exactly when it logs a stock-alert activity record, that is
\* when the saved quantity crosses a threshold: from 40 or more to 1..39,
\* or from above 0 to 0.
C28_SaveAlertsAgree ==
    [][ lastEvent'[1] = "handleSubmit:ok" =>
          LET records == Prepended(activities, activities')
              notes == Prepended(notifications, notifications')
              alertLogged == \E i \in 1..Len(records) : records[i].type = "alert"
              notified == \E i \in 1..Len(notes) :
                             notes[i].title \in {"Low Stock Alert", "Out of Stock Alert"}
              saved == FindById(products', IF routeId = NoId THEN NewId(created) ELSE routeId)
              before == FindById(products, routeId)
              crossed == /\ before # <<>>
                         /\ saved # <<>>
                         /\ \/ before[1].qty >= 40 /\ saved[1].qty \in 1..39
                            \/ before[1].qty > 0 /\ saved[1].qty = 0
          IN  /\ notified = alertLogged
              /\ notified = crossed ]_vars

\* C29: the number on the dashboard's Low Stock Items card is the number of
\* catalog products with 0 < quantity < 40, which is the number of rows the
\* inventory shows with the status filter Low Stock and no other filter.
C29_LowStockCardCount ==
    /\ lowStockCount =
          Cardinality({i \in 1..Len(products) :
                          products[i].qty > 0 /\ products[i].qty < 40})
    /\ (page = "inventory" /\ selectedStatus = "Low Stock" /\ searchTerm = <<>>
          /\ selectedCategory = <<"A", "l", "l">>)
        => Len(processedProducts) = lowStockCount

====
